---- MODULE Spec2Model ----
(***************************************************************************)
(* Model of aten/src/ATen/native/autotune/dispatch/core.cpp:               *)
(* the per-strategy bandit registries (ActiveBandits<T>), the process-wide *)
(* DispatchInterface and the per-call SelectImplementation session.        *)
(***************************************************************************)
EXTENDS Integers, Sequences, FiniteSets, TLC

(* ------------------------------ bounds -------------------------------- *)
NumKeys == 2          \* distinct KernelEntryPoint::MapKey values
NumRealImpls == 2     \* real api::Implementation values
NumSessions == 1      \* SelectImplementation objects constructed
NumThreads == 2       \* threads of the concurrent specification
MaxChoose == 2        \* choose calls that return between two resets
MaxUpdate == 1        \* update calls that return between two resets
MaxReset == 1         \* DispatchInterface::reset calls
MaxThrow == 1         \* failing cost_fn calls per registry between two resets
IdStride == MaxChoose + 1   \* bandit identities available between two resets

(* --------------------------- value domains ---------------------------- *)
Keys == 1..NumKeys
SessionIds == 1..NumSessions
Threads == 1..NumThreads

\* api::Implementation: the real values, then the pseudo-choices, then the
\* "count" sentinel, numbered like the enum.
RealImpls == 0..(NumRealImpls - 1)
kDisabled == NumRealImpls
kFallback == NumRealImpls + 1
TOTAL_COUNT == NumRealImpls + 2
Implementations == 0..TOTAL_COUNT

\* api::AvailableBandits. kUnknown stands for any out-of-range tag.
Selectable == {"kRandomChoice", "kGaussian"}
AvailableBandits == Selectable \cup {"kNone"}
BanditTags == AvailableBandits \cup {"kUnknown"}

\* KernelEntryPoint::cost_estimates: one estimate per candidate; only the
\* set of candidates matters to the registry.
CostEstimates == {RealImpls}

(* ------------------------------ state --------------------------------- *)
VARIABLES
  registry,        \* [Selectable -> ActiveBandits<T>]: next_seed_, ordered_keys_, bandits_
  active_bandit_,  \* DispatchInterface::active_bandit_
  chosen_counts_,  \* DispatchInterface::chosen_counts_
  session,         \* the SelectImplementation objects
  pc,              \* position of each thread inside ActiveBandits::get(key, cost_fn)
  tl,              \* arguments and locals of each thread
  next_id,         \* identity of the next bandit object constructed
  cost_calls,      \* cost_fn invocations per (strategy, key) since the last reset
  made,            \* bandit objects constructed per (strategy, key) since the last reset
  returned,        \* choose calls that returned since the last reset
  updated,         \* update calls that returned since the last reset
  resets,          \* reset calls so far
  last             \* the most recent call and how it ended

vars == <<registry, active_bandit_, chosen_counts_, session, pc, tl, next_id,
          cost_calls, made, returned, updated, resets, last>>

dispatch_vars == <<registry, active_bandit_, chosen_counts_>>
thread_vars == <<pc, tl>>
history_vars == <<next_id, cost_calls, made, returned, updated, resets>>

(* --------------------------- ActiveBandits<T> ------------------------- *)
EmptyMap == [k \in {} |-> 0]

\* T(cost_estimates, seed) for a bandit T.
NewBandit(est, seed, id) ==
  [id |-> id, seed |-> seed, arms |-> est, pulls |-> 0, obs |-> 0]

\* ActiveBandits(){} with the member initialisers.
ActiveBandits ==
  [next_seed_ |-> 0, ordered_keys_ |-> <<>>, bandits_ |-> EmptyMap]

\* bandits_.find(key) == bandits_.end()
Absent(reg, key) == key \notin DOMAIN reg.bandits_

\* bandits_[key] = value
MapPut(m, key, value) ==
  [k \in (DOMAIN m) \cup {key} |-> IF k = key THEN value ELSE m[k]]

\* get(key, cost_fn) without the find() test: every call constructs.
get_cost_fn_always(reg, key, est, id) ==
  [next_seed_ |-> reg.next_seed_ + 1,
   ordered_keys_ |-> Append(reg.ordered_keys_, key),
   bandits_ |-> MapPut(reg.bandits_, key, NewBandit(est, reg.next_seed_, id))]

\* get(key, cost_fn) that forgets next_seed_++.
get_cost_fn_same_seed(reg, key, est, id) ==
  IF Absent(reg, key)
    THEN [reg EXCEPT !.ordered_keys_ = Append(@, key),
                     !.bandits_ = MapPut(@, key, NewBandit(est, reg.next_seed_, id))]
    ELSE reg

\* ActiveBandits::get(key, cost_fn), cost_fn returning est; the registry after
\* the call.
get_cost_fn(reg, key, est, id) ==
  IF Absent(reg, key)
    THEN [next_seed_ |-> reg.next_seed_ + 1,
          ordered_keys_ |-> Append(reg.ordered_keys_, key),
          bandits_ |-> MapPut(reg.bandits_, key, NewBandit(est, reg.next_seed_, id))]
    ELSE reg

\* ActiveBandits::get(key): bandits_.at(key) throws when key is absent.
get_throws(reg, key) == Absent(reg, key)

get(reg, key) == reg.bandits_[key]

\* A unique_ptr<T> holding no object, as bandits_[k] inserts for a missing key.
NullBandit == [id |-> 0, seed |-> 0, arms |-> {}, pulls |-> 0, obs |-> 0]

\* The entry of key holds a bandit object.
Holds(reg, key) == ~Absent(reg, key) /\ reg.bandits_[key] # NullBandit

\* ActiveBandits::get(key, cost_fn) with cost_fn throwing: the registry after
\* the call, for a key that is absent (otherwise cost_fn is not called).
get_cost_fn_throws(reg, key) ==
  [reg EXCEPT !.ordered_keys_ = Append(@, key)]

\* The position in ordered_keys_ at which summarize() finds no bandit object,
\* 0 when every key has one.
FirstNull(reg) ==
  LET bad == {i \in 1..Len(reg.ordered_keys_) : ~Holds(reg, reg.ordered_keys_[i])}
  IN IF bad = {} THEN 0 ELSE CHOOSE i \in bad : \A j \in bad : i <= j

\* ActiveBandits::summarize: the bandit objects whose summarize(k) ran, in
\* the order of the calls. bandits_[k] of a key without object yields a null
\* pointer and the call through it ends the loop.
Summarized(reg) ==
  LET n == IF FirstNull(reg) = 0 THEN Len(reg.ordered_keys_) ELSE FirstNull(reg) - 1
  IN [i \in 1..n |-> reg.bandits_[reg.ordered_keys_[i]].id]

\* ActiveBandits::summarize: the registry after the call; bandits_[k] inserts
\* an empty entry for a key the map does not have.
ActiveBandits_summarize(reg) ==
  IF FirstNull(reg) = 0 THEN reg
  ELSE [reg EXCEPT !.bandits_ =
          MapPut(@, reg.ordered_keys_[FirstNull(reg)], NullBandit)]

\* reset() that forgets bandits_.clear().
ActiveBandits_reset_keeps_map(reg) ==
  [reg EXCEPT !.next_seed_ = 0, !.ordered_keys_ = <<>>]

\* ActiveBandits::reset
ActiveBandits_reset(reg) ==
  [next_seed_ |-> 0, ordered_keys_ |-> <<>>, bandits_ |-> EmptyMap]

(* ------------------------------ bandits ------------------------------- *)
\* Bandit::choose(): the values it may return.
Bandit_choose(bandit) == bandit.arms

\* The bandit after choose() / update(choice, delta_ns).
Bandit_pulled(bandit) == [bandit EXCEPT !.pulls = @ + 1]
Bandit_update(bandit, choice) == [bandit EXCEPT !.obs = @ + 1]

(* ------------------------------ Init ---------------------------------- *)
\* How the most recent call ended: the operation, the fault it raised ("none"
\* when it returned) and, for reset, the bandits it destroyed. For finish(),
\* update holds the arguments of the DispatchInterface::update call it made;
\* for summarize(), visited holds the bandit objects it reported, in order.
Call(op, fault, destroyed) ==
  [op |-> op, fault |-> fault, destroyed |-> destroyed, update |-> <<>>,
   visited |-> <<>>]

\* A SelectImplementation object that has not been constructed.
NoSession ==
  [live |-> FALSE, key |-> 0,
   bandit_type_ |-> "kNone", choice_ |-> TOTAL_COUNT,
   record_duration_ |-> FALSE, record_finished_ |-> FALSE,
   start_ |-> FALSE, updates |-> 0, logs |-> 0, inst |-> 0]

\* A thread that has not called yet.
NoCall ==
  [op |-> "none", b |-> "kNone", key |-> 0, est |-> {}, got |-> 0,
   choice |-> TOTAL_COUNT]

Init ==
  /\ registry = [s \in Selectable |-> ActiveBandits]
  /\ active_bandit_ = "kNone"
  /\ chosen_counts_ = [i \in 0..(TOTAL_COUNT - 1) |-> 0]
  /\ session = [i \in SessionIds |-> NoSession]
  /\ pc = [t \in Threads |-> "idle"]
  /\ tl = [t \in Threads |-> NoCall]
  /\ next_id = 1
  /\ cost_calls = [s \in Selectable |-> [k \in Keys |-> 0]]
  /\ made = [s \in Selectable |-> [k \in Keys |-> 0]]
  /\ returned = 0
  /\ updated = 0
  /\ resets = 0
  /\ last = Call("init", "none", {})

(* -------------------------- DispatchInterface ------------------------- *)
\* set_active_bandit(b)
set_active_bandit(b) ==
  /\ active_bandit_' = b
  /\ last' = Call("set_active_bandit", "none", {})
  /\ UNCHANGED <<registry, chosen_counts_, session, thread_vars, history_vars>>

\* choose() that forgets chosen_counts_[choice]++.
CountChoice_forgotten(counts, choice) == counts

\* chosen_counts_[choice]++
CountChoice(counts, choice) == [counts EXCEPT ![choice] = @ + 1]

\* The switch of choose/update: the default branch asserts.
SwitchFault(b) == IF b \in Selectable THEN "none" ELSE "Unsupported"

\* The fault DispatchInterface::choose(b, key, cost_estimates) raises when the
\* bandit answers choice.
ChooseFault(b, choice) ==
  IF SwitchFault(b) # "none" THEN SwitchFault(b)
  ELSE IF choice = TOTAL_COUNT THEN "Assert"
  ELSE "none"

\* The effect of DispatchInterface::choose(b, key, cost_estimates) on the
\* registries, the counters and the history, with cost_estimates() returning
\* est and the bandit answering choice.
ChooseEffect(b, key, est, choice) ==
  IF SwitchFault(b) # "none"
    THEN UNCHANGED <<registry, chosen_counts_, next_id, cost_calls, made, returned>>
    ELSE
      LET reg == get_cost_fn(registry[b], key, est, next_id)
          bandit == get(reg, key)
          fresh == bandit.id = next_id   \* a bandit was constructed
      IN /\ choice \in Bandit_choose(bandit)
         /\ registry' = [registry EXCEPT
                           ![b] = [reg EXCEPT !.bandits_[key] = Bandit_pulled(bandit)]]
         /\ next_id' = IF fresh THEN next_id + 1 ELSE next_id
         /\ cost_calls' = IF fresh THEN [cost_calls EXCEPT ![b][key] = @ + 1]
                                   ELSE cost_calls
         /\ made' = IF fresh THEN [made EXCEPT ![b][key] = @ + 1] ELSE made
         /\ IF ChooseFault(b, choice) # "none"
              THEN UNCHANGED <<chosen_counts_, returned>>
              ELSE /\ chosen_counts_' = CountChoice(chosen_counts_, choice)
                   /\ returned' = returned + 1

\* choose() whose default case falls through to the Gaussian registry.
choose_fallthrough(b, key, est, choice) ==
  LET bb == IF b \in Selectable THEN b ELSE "kGaussian"
  IN /\ returned < MaxChoose
     /\ ChooseEffect(bb, key, est, choice)
     /\ last' = Call("choose", ChooseFault(bb, choice), {})
     /\ UNCHANGED <<active_bandit_, session, thread_vars, updated, resets>>

\* DispatchInterface::choose called directly.
choose(b, key, est, choice) ==
  /\ returned < MaxChoose
  /\ ChooseEffect(b, key, est, choice)
  /\ last' = Call("choose", ChooseFault(b, choice), {})
  /\ UNCHANGED <<active_bandit_, session, thread_vars, updated, resets>>

\* DispatchInterface::choose(b, key, cost_estimates) with cost_estimates()
\* throwing: the key is already in ordered_keys_ when the exception leaves get.
choose_cost_fn_throws(b, key) ==
  /\ b \in Selectable
  /\ Absent(registry[b], key)
  /\ Len(registry[b].ordered_keys_) - registry[b].next_seed_ < MaxThrow
  /\ registry' = [registry EXCEPT ![b] = get_cost_fn_throws(registry[b], key)]
  /\ cost_calls' = [cost_calls EXCEPT ![b][key] = @ + 1]
  /\ last' = Call("choose", "CostFn", {})
  /\ UNCHANGED <<active_bandit_, chosen_counts_, session, thread_vars, next_id, made,
                 returned, updated, resets>>

\* DispatchInterface::choose(b, key, cost_estimates) for a key whose entry
\* holds no object: get returns the empty unique_ptr and ->choose() goes
\* through a null pointer.
choose_null(b, key) ==
  /\ b \in Selectable
  /\ ~Absent(registry[b], key) /\ ~Holds(registry[b], key)
  /\ last' = Call("choose", "NullDeref", {})
  /\ UNCHANGED <<registry, active_bandit_, chosen_counts_, session, thread_vars,
                 history_vars>>

\* DispatchInterface::summarize
summarize ==
  /\ IF SwitchFault(active_bandit_) # "none"
       THEN /\ last' = Call("summarize", SwitchFault(active_bandit_), {})
            /\ UNCHANGED registry
       ELSE LET reg == registry[active_bandit_]
            IN /\ registry' = [registry EXCEPT ![active_bandit_] = ActiveBandits_summarize(reg)]
               /\ last' = [Call("summarize",
                                IF FirstNull(reg) = 0 THEN "none" ELSE "NullDeref", {})
                             EXCEPT !.visited = Summarized(reg)]
  /\ UNCHANGED <<active_bandit_, chosen_counts_, session, thread_vars, history_vars>>

\* times_chosen(choice)
times_chosen(choice) == chosen_counts_[choice]

\* times_chosen() without its assertion.
TimesChosenFault_unchecked(choice) == "none"

\* TORCH_INTERNAL_ASSERT(choice != api::Implementation::TOTAL_COUNT)
TimesChosenFault(choice) == IF choice = TOTAL_COUNT THEN "Assert" ELSE "none"

\* A caller reads DispatchInterface::times_chosen(choice).
call_times_chosen(choice) ==
  /\ last' = Call("times_chosen", TimesChosenFault(choice), {})
  /\ UNCHANGED <<registry, active_bandit_, chosen_counts_, session, thread_vars,
                 history_vars>>

\* The fault DispatchInterface::update(b, key, choice, delta_ns) raises.
UpdateFault(b, key) ==
  IF SwitchFault(b) # "none" THEN SwitchFault(b)
  ELSE IF get_throws(registry[b], key) THEN "NotFound"
  ELSE "none"

\* update() that looks the bandit up with bandits_[key] instead of at(key):
\* a missing key gets an entry.
UpdateEffect_inserts(b, key, choice) ==
  IF SwitchFault(b) # "none"
    THEN UNCHANGED <<registry, updated>>
    ELSE /\ registry' = [registry EXCEPT ![b].bandits_ =
                MapPut(@, key,
                       Bandit_update(IF Absent(registry[b], key)
                                       THEN NewBandit({}, 0, 0)
                                       ELSE get(registry[b], key), choice))]
         /\ updated' = updated + 1

\* The effect of DispatchInterface::update(b, key, choice, delta_ns).
UpdateEffect(b, key, choice) ==
  IF UpdateFault(b, key) # "none"
    THEN UNCHANGED <<registry, updated>>
    ELSE /\ registry' = [registry EXCEPT
                           ![b].bandits_[key] = Bandit_update(get(registry[b], key), choice)]
         /\ updated' = updated + 1

\* DispatchInterface::update called directly.
update(b, key, choice) ==
  /\ updated < MaxUpdate
  /\ UpdateEffect(b, key, choice)
  /\ last' = Call("update", UpdateFault(b, key), {})
  /\ UNCHANGED <<active_bandit_, chosen_counts_, session, thread_vars,
                 next_id, cost_calls, made, returned, resets>>

\* The bandits the registries own, each with its strategy and key.
Owned ==
  {<<s, k, registry[s].bandits_[k].id>> : <<s, k>> \in
     {p \in Selectable \X Keys : ~Absent(registry[p[1]], p[2])}}

\* DispatchInterface::reset. Bandit identities are never reused: each reset
\* starts a new block of them.
reset ==
  /\ resets < MaxReset
  /\ registry' = [s \in Selectable |-> ActiveBandits_reset(registry[s])]
  /\ active_bandit_' = "kNone"
  /\ chosen_counts_' = [i \in DOMAIN chosen_counts_ |-> 0]
  /\ cost_calls' = [s \in Selectable |-> [k \in Keys |-> 0]]
  /\ made' = [s \in Selectable |-> [k \in Keys |-> 0]]
  /\ returned' = 0
  /\ updated' = 0
  /\ resets' = resets + 1
  /\ next_id' = (resets + 1) * IdStride + 1
  /\ last' = Call("reset", "none", Owned)
  /\ UNCHANGED <<session, thread_vars>>

(* ------------------------ SelectImplementation ------------------------ *)
\* What a call site declares: entry_point_.implementations().
Declared == {{}, RealImpls}

\* The constructor testing fallback() before the active strategy.
Branch_fallback_first(b, fallback, impls) ==
  IF fallback THEN "Fallback"
  ELSE IF b = "kNone" THEN "Disabled"
  ELSE IF impls = {} THEN "Config"
  ELSE "Measuring"

\* The constructor treating a call site without implementations as fallback.
Branch_empty_is_fallback(b, fallback, impls) ==
  IF b = "kNone" THEN "Disabled"
  ELSE IF fallback \/ impls = {} THEN "Fallback"
  ELSE "Measuring"

\* The branch the constructor takes.
Branch(b, fallback, impls) ==
  IF b = "kNone" THEN "Disabled"
  ELSE IF fallback THEN "Fallback"
  ELSE IF impls = {} THEN "Config"
  ELSE "Measuring"

\* SelectImplementation<T>::SelectImplementation(args) for the entry point
\* (key, fallback, impls), whose costs() covers impls; the bandit answers
\* choice. sid is the object constructed; objects are numbered in the order of
\* their construction, and one that is never finished is simply abandoned.
SelectImplementation(sid, key, fallback, impls, choice) ==
  LET b == active_bandit_
      br == Branch(b, fallback, impls)
      obj == [NoSession EXCEPT !.live = TRUE, !.key = key, !.bandit_type_ = b]
  IN /\ ~session[sid].live
     /\ \A i \in SessionIds : i < sid => session[i].live
     /\ CASE br = "Disabled" ->
               /\ session' = [session EXCEPT ![sid] = [obj EXCEPT !.choice_ = kDisabled]]
               /\ last' = Call("SelectImplementation", "none", {})
               /\ UNCHANGED <<registry, chosen_counts_, next_id, cost_calls, made,
                              returned>>
          [] br = "Fallback" ->
               /\ session' = [session EXCEPT ![sid] = [obj EXCEPT !.choice_ = kFallback]]
               /\ last' = Call("SelectImplementation", "none", {})
               /\ UNCHANGED <<registry, chosen_counts_, next_id, cost_calls, made,
                              returned>>
          [] br = "Config" ->
               \* TORCH_INTERNAL_ASSERT(entry_point_.implementations().size(), ...)
               /\ last' = Call("SelectImplementation", "Config", {})
               /\ UNCHANGED <<session, registry, chosen_counts_, next_id, cost_calls,
                              made, returned>>
          [] br = "Measuring" ->
               /\ returned < MaxChoose
               /\ ChooseEffect(b, key, impls, choice)
               /\ last' = Call("SelectImplementation", ChooseFault(b, choice), {})
               /\ session' =
                    IF ChooseFault(b, choice) # "none" THEN session
                    ELSE [session EXCEPT ![sid] =
                            [obj EXCEPT !.choice_ = choice,
                                        !.record_duration_ = TRUE,
                                        !.start_ = TRUE,
                                        !.inst = registry'[b].bandits_[key].id]]
     /\ UNCHANGED <<active_bandit_, thread_vars, updated, resets>>

\* SelectImplementation<T>::choice()
choice(sid) == session[sid].choice_

\* finish() without the record_finished_ assertion.
FinishBranch_no_assert(s) ==
  IF ~s.record_duration_ THEN "noop" ELSE "update"

\* finish() without the record_duration_ test.
FinishBranch_always_records(s) ==
  IF s.record_finished_ THEN "DoubleFinish" ELSE "update"

\* The branch finish() takes.
FinishBranch(s) ==
  IF ~s.record_duration_ THEN "noop"
  ELSE IF s.record_finished_ THEN "DoubleFinish"
  ELSE "update"

\* finish() routing the update by the strategy active now.
FinishUpdateArgs_active(s) == <<active_bandit_, s.key, s.choice_>>

\* DispatchInterface::singleton().update(bandit_type_, key, choice_, delta_ns):
\* the arguments.
FinishUpdateArgs(s) == <<s.bandit_type_, s.key, s.choice_>>

\* The SelectImplementation object goes out of scope; finish() need not have
\* been called. The objects are scoped, so the one constructed last goes first.
abandon(sid) ==
  /\ session[sid].live
  /\ \A i \in SessionIds : i > sid => ~session[i].live
  /\ session' = [session EXCEPT ![sid] = NoSession]
  /\ last' = Call("abandon", "none", {})
  /\ UNCHANGED <<registry, active_bandit_, chosen_counts_, thread_vars, history_vars>>

\* SelectImplementation<T>::finish()
finish(sid) ==
  LET s == session[sid]
      br == FinishBranch(s)
      args == FinishUpdateArgs(s)
  IN /\ s.live
     /\ CASE br = "noop" ->
               /\ last' = Call("finish", "none", {})
               /\ UNCHANGED <<session, registry, updated>>
          [] br = "DoubleFinish" ->
               \* TORCH_INTERNAL_ASSERT(!record_finished_, "finish() called twice.")
               /\ last' = Call("finish", "DoubleFinish", {})
               /\ UNCHANGED <<session, registry, updated>>
          [] br = "update" ->
               LET f == UpdateFault(args[1], args[2])
               IN /\ UpdateEffect(args[1], args[2], args[3])
                  /\ last' = [Call("finish", f, {}) EXCEPT !.update = args]
                  /\ session' = [session EXCEPT ![sid] =
                        [s EXCEPT !.record_finished_ = TRUE,
                                  !.updates = IF f = "none" THEN @ + 1 ELSE @,
                                  !.logs = IF f = "none" THEN @ + 1 ELSE @]]
     /\ UNCHANGED <<active_bandit_, chosen_counts_, thread_vars,
                    next_id, cost_calls, made, returned, resets>>

(* ------------- ActiveBandits::get(key, cost_fn), by threads ------------ *)
\* The function takes no lock, so the statements of two threads interleave.
\* Each thread calls once; pc names the statement it executes next.
seq_vars == <<active_bandit_, chosen_counts_, session, returned, updated, resets, last>>

\* Thread t calls get(key, cost_fn) on the registry of strategy b.
T_call(t, b, key, est) ==
  /\ pc[t] = "idle"
  /\ pc' = [pc EXCEPT ![t] = "find"]
  /\ tl' = [tl EXCEPT ![t] = [NoCall EXCEPT !.op = "get", !.b = b, !.key = key,
                                               !.est = est]]
  /\ UNCHANGED <<registry, next_id, cost_calls, made, seq_vars>>

\* if (bandits_.find(key) == bandits_.end())
T_find(t) ==
  /\ pc[t] = "find"
  /\ pc' = [pc EXCEPT ![t] =
              IF Absent(registry[tl[t].b], tl[t].key) THEN "push_back" ELSE "at"]
  /\ UNCHANGED <<tl, registry, next_id, cost_calls, made, seq_vars>>

\* ordered_keys_.push_back(key)
T_push_back(t) ==
  /\ pc[t] = "push_back"
  /\ registry' = [registry EXCEPT ![tl[t].b].ordered_keys_ = Append(@, tl[t].key)]
  /\ pc' = [pc EXCEPT ![t] = "cost_fn"]
  /\ UNCHANGED <<tl, next_id, cost_calls, made, seq_vars>>

\* auto cost_estimates = cost_fn()
T_cost_fn(t) ==
  /\ pc[t] = "cost_fn"
  /\ cost_calls' = [cost_calls EXCEPT ![tl[t].b][tl[t].key] = @ + 1]
  /\ pc' = [pc EXCEPT ![t] = "make_unique"]
  /\ UNCHANGED <<tl, registry, next_id, made, seq_vars>>

\* bandits_[key] = std::make_unique<T>(cost_estimates, next_seed_): the new
\* bandit replaces (and destroys) the one another thread stored meanwhile.
T_make_unique(t) ==
  LET b == tl[t].b
      key == tl[t].key
  IN /\ pc[t] = "make_unique"
     /\ registry' = [registry EXCEPT ![b].bandits_ =
                       MapPut(@, key, NewBandit(tl[t].est, registry[b].next_seed_, next_id))]
     /\ next_id' = next_id + 1
     /\ made' = [made EXCEPT ![b][key] = @ + 1]
     /\ pc' = [pc EXCEPT ![t] = "next_seed"]
     /\ UNCHANGED <<tl, cost_calls, seq_vars>>

\* next_seed_++
T_next_seed(t) ==
  /\ pc[t] = "next_seed"
  /\ registry' = [registry EXCEPT ![tl[t].b].next_seed_ = @ + 1]
  /\ pc' = [pc EXCEPT ![t] = "at"]
  /\ UNCHANGED <<tl, next_id, cost_calls, made, seq_vars>>

\* return bandits_.at(key)
T_at(t) ==
  /\ pc[t] = "at"
  /\ ~Absent(registry[tl[t].b], tl[t].key)
  /\ tl' = [tl EXCEPT ![t].got = get(registry[tl[t].b], tl[t].key).id]
  /\ pc' = [pc EXCEPT ![t] = "done"]
  /\ UNCHANGED <<registry, next_id, cost_calls, made, seq_vars>>

(* ------------ DispatchInterface::choose and update, by threads --------- *)
\* Neither function takes a lock. A thread in choose runs the statements of
\* get(key, cost_fn) above, then the bandit's choose(), then counts.
\* The bandit object thread t holds is still the one its registry owns.
Alive(t) ==
  /\ ~Absent(registry[tl[t].b], tl[t].key)
  /\ get(registry[tl[t].b], tl[t].key).id = tl[t].got

\* Thread t calls DispatchInterface::choose(b, key, cost_estimates).
T_choose(t, b, key, est) ==
  /\ pc[t] = "idle"
  /\ pc' = [pc EXCEPT ![t] = "find"]
  /\ tl' = [tl EXCEPT ![t] = [NoCall EXCEPT !.op = "choose", !.b = b, !.key = key,
                                               !.est = est]]
  /\ UNCHANGED <<registry, next_id, cost_calls, made, seq_vars>>

\* get(key, cost_estimates)->choose(): the call enters the bandit the map
\* holds for the key at this moment.
T_choose_enter(t) ==
  /\ pc[t] = "done" /\ tl[t].op = "choose"
  /\ ~Absent(registry[tl[t].b], tl[t].key)
  /\ tl' = [tl EXCEPT ![t].got = get(registry[tl[t].b], tl[t].key).id]
  /\ pc' = [pc EXCEPT ![t] = "in_choose"]
  /\ UNCHANGED <<registry, next_id, cost_calls, made, seq_vars>>

\* choose() returns c. When another thread's store at line 37 destroyed the
\* object meanwhile, the call ran on freed memory and c is any value of the
\* enum (a crash ends the call like the assertion on TOTAL_COUNT does).
T_choose_exit(t, c) ==
  LET b == tl[t].b
      key == tl[t].key
  IN /\ pc[t] = "in_choose"
     /\ IF Alive(t)
          THEN /\ c \in Bandit_choose(get(registry[b], key))
               /\ registry' = [registry EXCEPT
                                 ![b].bandits_[key] = Bandit_pulled(get(registry[b], key))]
          ELSE UNCHANGED registry
     /\ tl' = [tl EXCEPT ![t].choice = c]
     /\ pc' = [pc EXCEPT ![t] = "count"]
     /\ UNCHANGED <<next_id, cost_calls, made, seq_vars>>

\* TORCH_INTERNAL_ASSERT(choice != TOTAL_COUNT); chosen_counts_[choice]++;
\* return choice. The increment is one atomic step.
T_count(t) ==
  /\ pc[t] = "count"
  /\ IF ChooseFault(tl[t].b, tl[t].choice) # "none"
       THEN /\ pc' = [pc EXCEPT ![t] = "failed"]
            /\ UNCHANGED <<chosen_counts_, returned>>
       ELSE /\ chosen_counts_' = CountChoice(chosen_counts_, tl[t].choice)
            /\ returned' = returned + 1
            /\ pc' = [pc EXCEPT ![t] = "returned"]
  /\ UNCHANGED <<tl, registry, next_id, cost_calls, made, active_bandit_, session,
                 updated, resets, last>>

\* Thread t calls DispatchInterface::update(b, key, choice, delta_ns).
T_update(t, b, key, c) ==
  /\ pc[t] = "idle"
  /\ pc' = [pc EXCEPT ![t] = "update_at"]
  /\ tl' = [tl EXCEPT ![t] = [NoCall EXCEPT !.op = "update", !.b = b, !.key = key,
                                               !.choice = c]]
  /\ UNCHANGED <<registry, next_id, cost_calls, made, seq_vars>>

\* get(key)->update(choice, delta_ns): at(key) throws for a missing key,
\* otherwise the call enters the bandit the map holds.
T_update_enter(t) ==
  /\ pc[t] = "update_at"
  /\ IF get_throws(registry[tl[t].b], tl[t].key)
       THEN /\ pc' = [pc EXCEPT ![t] = "failed"]
            /\ UNCHANGED tl
       ELSE /\ pc' = [pc EXCEPT ![t] = "in_update"]
            /\ tl' = [tl EXCEPT ![t].got = get(registry[tl[t].b], tl[t].key).id]
  /\ UNCHANGED <<registry, next_id, cost_calls, made, seq_vars>>

\* update() returns; on a destroyed object it wrote to freed memory.
T_update_exit(t) ==
  LET b == tl[t].b
      key == tl[t].key
  IN /\ pc[t] = "in_update"
     /\ IF Alive(t)
          THEN registry' = [registry EXCEPT
                 ![b].bandits_[key] = Bandit_update(get(registry[b], key), tl[t].choice)]
          ELSE UNCHANGED registry
     /\ updated' = updated + 1
     /\ pc' = [pc EXCEPT ![t] = "returned"]
     /\ UNCHANGED <<tl, next_id, cost_calls, made, active_bandit_, chosen_counts_,
                    session, returned, resets, last>>

(* --------------------------- specifications --------------------------- *)
\* The routed calls of the dispatch interface, made directly, one at a time.
\* They take the strategy as an argument and never read active_bandit_.
Next ==
  \/ \E b \in BanditTags, k \in Keys, est \in CostEstimates, c \in Implementations :
       choose(b, k, est, c)
  \/ \E b \in BanditTags, k \in Keys, c \in RealImpls : update(b, k, c)
  \/ reset

Spec == Init /\ [][Next]_vars

\* The same with the active strategy being set in between.
NextActive ==
  \/ Next
  \/ \E b \in AvailableBandits : set_active_bandit(b)

SpecActive == Init /\ [][NextActive]_vars

\* choose and reset with the counters being read in between.
NextCounts ==
  \/ \E b \in BanditTags, k \in Keys, est \in CostEstimates, c \in Implementations :
       choose(b, k, est, c)
  \/ \E c \in Implementations : call_times_chosen(c)
  \/ reset

SpecCounts == Init /\ [][NextCounts]_vars

\* The registries with cost_fn callbacks that may throw, and their report.
NextRegistry ==
  \/ \E b \in Selectable : set_active_bandit(b)
  \/ \E b \in Selectable, k \in Keys, est \in CostEstimates, c \in RealImpls :
       choose(b, k, est, c)
  \/ \E b \in Selectable, k \in Keys : choose_cost_fn_throws(b, k)
  \/ \E b \in Selectable, k \in Keys : choose_null(b, k)
  \/ summarize
  \/ reset

SpecRegistry == Init /\ [][NextRegistry]_vars

\* Call sites using sessions, one call at a time.
NextSession ==
  \/ \E b \in AvailableBandits : set_active_bandit(b)
  \/ \E sid \in SessionIds, k \in Keys, fb \in BOOLEAN, impls \in Declared,
        c \in Implementations : SelectImplementation(sid, k, fb, impls, c)
  \/ \E sid \in SessionIds : finish(sid)
  \/ reset

SpecSession == Init /\ [][NextSession]_vars

\* The SelectImplementation object constructed first.
FirstSession == CHOOSE i \in SessionIds : \A j \in SessionIds : i <= j

\* Another caller calls choose directly for the strategy and key of the
\* Measuring session sid.
choose_site(sid, est, c) ==
  /\ session[sid].record_duration_
  /\ choose(session[sid].bandit_type_, session[sid].key, est, c)

\* One session of a call site that declares its implementations, with reset
\* and with other callers calling choose directly for the session's strategy
\* and key in between.
NextMixed ==
  \/ \E b \in Selectable : set_active_bandit(b)
  \/ \E k \in Keys, c \in Implementations :
       SelectImplementation(FirstSession, k, FALSE, RealImpls, c)
  \/ finish(FirstSession)
  \/ reset
  \/ \E est \in CostEstimates, c \in RealImpls : choose_site(FirstSession, est, c)

SpecMixed == Init /\ [][NextMixed]_vars

\* Call sites that declare their implementations, under a strategy that is
\* switched but never turned off; their sessions come and go, with no reset.
NextSites ==
  \/ \E b \in Selectable : set_active_bandit(b)
  \/ \E sid \in SessionIds, k \in Keys, c \in Implementations :
       SelectImplementation(sid, k, FALSE, RealImpls, c)
  \/ \E sid \in SessionIds : finish(sid)
  \/ \E sid \in SessionIds : abandon(sid)

SpecSites == Init /\ [][NextSites]_vars

\* Threads calling ActiveBandits::get(key, cost_fn) at the same time.
NextThreads ==
  \/ \E t \in Threads, b \in Selectable, k \in Keys, est \in CostEstimates :
       T_call(t, b, k, est)
  \/ \E t \in Threads : T_find(t)
  \/ \E t \in Threads : T_push_back(t)
  \/ \E t \in Threads : T_cost_fn(t)
  \/ \E t \in Threads : T_make_unique(t)
  \/ \E t \in Threads : T_next_seed(t)
  \/ \E t \in Threads : T_at(t)

SpecThreads == Init /\ [][NextThreads]_vars

\* Threads calling DispatchInterface::choose and update at the same time.
NextRace ==
  \/ \E t \in Threads, b \in Selectable, k \in Keys, est \in CostEstimates :
       T_choose(t, b, k, est)
  \/ \E t \in Threads : T_find(t)
  \/ \E t \in Threads : T_push_back(t)
  \/ \E t \in Threads : T_cost_fn(t)
  \/ \E t \in Threads : T_make_unique(t)
  \/ \E t \in Threads : T_next_seed(t)
  \/ \E t \in Threads : T_at(t)
  \/ \E t \in Threads : T_choose_enter(t)
  \/ \E t \in Threads, c \in Implementations : T_choose_exit(t, c)
  \/ \E t \in Threads : T_count(t)
  \/ \E t \in Threads, b \in Selectable, k \in Keys, c \in RealImpls :
       T_update(t, b, k, c)
  \/ \E t \in Threads : T_update_enter(t)
  \/ \E t \in Threads : T_update_exit(t)

SpecRace == Init /\ [][NextRace]_vars

(* ------------------------------ claims -------------------------------- *)
RECURSIVE SumOver(_, _)
SumOver(f, S) ==
  IF S = {} THEN 0
  ELSE LET x == CHOOSE y \in S : TRUE IN f[x] + SumOver(f, S \ {x})

\* The threads that have called get(key, cost_fn) for (b, key).
Callers(b, key) == {t \in Threads : pc[t] # "idle" /\ tl[t].b = b /\ tl[t].key = key}

\* C1: once every thread that called get(k, cost_fn) on the registry of s has
\* returned, exactly one bandit was constructed for k and cost_fn ran exactly
\* once, whatever the interleaving.
C1_ExactlyOneInstance ==
  \A b \in Selectable, k \in Keys :
    (Callers(b, k) # {} /\ \A t \in Callers(b, k) : pc[t] = "done")
      => (made[b][k] = 1 /\ cost_calls[b][k] = 1)

\* C2: between two resets at most one bandit is constructed and cost_fn runs
\* at most once per (strategy, key); the choose that finds no bandit constructs
\* it and runs cost_fn once, every later choose leaves the same bandit object
\* in the registry and runs no cost_fn.
C2_OneInstancePerPair ==
  [][ /\ \A s \in Selectable, k \in Keys : made'[s][k] <= 1 /\ cost_calls'[s][k] <= 1
      /\ last'.op = "choose" =>
           \A b \in Selectable, k \in Keys, est \in CostEstimates, c \in RealImpls :
             choose(b, k, est, c) =>
               /\ ~Absent(registry'[b], k)
               /\ IF Absent(registry[b], k)
                    THEN /\ made[b][k] = 0 /\ made'[b][k] = 1
                         /\ cost_calls[b][k] = 0 /\ cost_calls'[b][k] = 1
                         /\ get(registry'[b], k).id = next_id
                         /\ next_id' > next_id
                    ELSE /\ made' = made
                         /\ cost_calls' = cost_calls
                         /\ next_id' = next_id
                         /\ get(registry'[b], k).id = get(registry[b], k).id
                         /\ get(registry'[b], k).seed = get(registry[b], k).seed
    ]_vars

\* A choose has reused the bandit an earlier choose created.
C2_Witness ==
  /\ last.op = "choose" /\ last.fault = "none"
  /\ \E b \in Selectable, k \in Keys :
       /\ ~Absent(registry[b], k)
       /\ get(registry[b], k).pulls >= 2
       /\ made[b][k] = 1 /\ cost_calls[b][k] = 1

\* C3: the times_chosen counters of the real implementations add up to the
\* number of choose calls that returned since the last reset, and a returning
\* choose adds one to the counter of the implementation it returns and leaves
\* every other counter alone.
C3_CountConservation ==
  [][ /\ SumOver(chosen_counts_', RealImpls) = returned'
      /\ last'.op = "choose" =>
           \A b \in Selectable, k \in Keys, est \in CostEstimates, c \in Implementations :
             (choose(b, k, est, c) /\ last'.fault = "none") =>
               /\ c \in RealImpls
               /\ chosen_counts_' = [chosen_counts_ EXCEPT ![c] = @ + 1]
    ]_vars

\* Two choose calls have returned and been counted.
C3_Witness ==
  /\ last.op = "choose" /\ last.fault = "none"
  /\ returned >= 2
  /\ SumOver(chosen_counts_, RealImpls) >= 2

\* C4: a session constructed while active_bandit() == kNone, whatever its
\* fallback flag and implementations, has choice() == kDisabled and no timer,
\* creates no registry entry and changes no counter; finish() on it returns
\* without fault, without update and without log record.
C4_DisabledShortCircuit ==
  [][ /\ (last'.op = "SelectImplementation" /\ active_bandit_ = "kNone") =>
           \A sid \in SessionIds, k \in Keys, fb \in BOOLEAN, impls \in Declared,
              c \in Implementations :
             SelectImplementation(sid, k, fb, impls, c) =>
               /\ last'.fault = "none"
               /\ session'[sid].live
               /\ session'[sid].choice_ = kDisabled
               /\ ~session'[sid].start_
               /\ UNCHANGED <<registry, chosen_counts_, cost_calls, made, returned>>
      /\ last'.op = "finish" =>
           \A sid \in SessionIds :
             (finish(sid) /\ choice(sid) = kDisabled) =>
               /\ last'.fault = "none"
               /\ UNCHANGED <<registry, chosen_counts_, updated, session>>
    ]_vars

\* finish() was called on a Disabled session while no strategy is active.
C4_Witness ==
  /\ last.op = "finish" /\ last.fault = "none"
  /\ active_bandit_ = "kNone"
  /\ \E sid \in SessionIds : session[sid].live /\ choice(sid) = kDisabled

\* C5: reset leaves the active strategy kNone, every counter 0 and both
\* registries empty with seed counter 0; the choose that follows the reset, for
\* a key whose bandit the reset destroyed, runs cost_fn again and constructs a
\* bandit that is none of the destroyed ones.
C5_ResetClears ==
  [][ /\ last'.op = "reset" =>
           /\ active_bandit_' = "kNone"
           /\ \A i \in DOMAIN chosen_counts_' : chosen_counts_'[i] = 0
           /\ \A s \in Selectable :
                /\ DOMAIN registry'[s].bandits_ = {}
                /\ registry'[s].ordered_keys_ = <<>>
                /\ registry'[s].next_seed_ = 0
      /\ (last.op = "reset" /\ last'.op = "choose") =>
           \A p \in last.destroyed, est \in CostEstimates, c \in RealImpls :
             choose(p[1], p[2], est, c) =>
               /\ cost_calls'[p[1]][p[2]] = cost_calls[p[1]][p[2]] + 1
               /\ made'[p[1]][p[2]] = made[p[1]][p[2]] + 1
               /\ get(registry'[p[1]], p[2]).id \notin {q[3] : q \in last.destroyed}
               /\ get(registry'[p[1]], p[2]).pulls = 1
    ]_vars

\* reset has just destroyed at least one bandit.
C5_Witness ==
  /\ last.op = "reset"
  /\ last.destroyed # {}
  /\ active_bandit_ = "kNone"
  /\ \A s \in Selectable : DOMAIN registry[s].bandits_ = {}

\* C6: finish() on a session that already finished raises DoubleFinish and
\* performs no update and no log record; no session ever feeds more than one
\* observation or emits more than one log record.
C6_DoubleFinish ==
  [][ /\ last'.op = "finish" =>
           \A sid \in SessionIds :
             ( /\ finish(sid)
               /\ session[sid].record_duration_
               /\ session[sid].record_finished_ ) =>
               /\ last'.fault = "DoubleFinish"
               /\ UNCHANGED <<registry, updated, session>>
      /\ \A i \in SessionIds : session'[i].updates <= 1 /\ session'[i].logs <= 1
    ]_vars

\* A second finish() on a session whose first finish() fed its observation.
C6_Witness ==
  /\ last.op = "finish" /\ last.fault = "DoubleFinish"
  /\ \E sid \in SessionIds : session[sid].updates = 1

\* C7: update(s, k, impl, cost) for a key without bandit in the registry of s
\* raises NotFound and leaves both registries (maps, ordered key lists, seed
\* counters, every bandit) as they were.
C7_UpdateNotFound ==
  [][ last'.op = "update" =>
        \A b \in Selectable, k \in Keys, c \in RealImpls :
          (update(b, k, c) /\ Absent(registry[b], k)) =>
            /\ last'.fault = "NotFound"
            /\ UNCHANGED <<registry, updated, made, cost_calls, next_id>>
    ]_vars

\* update failed for a missing key while the registries hold another bandit.
C7_Witness ==
  /\ last.op = "update" /\ last.fault = "NotFound"
  /\ \E s \in Selectable : registry[s].ordered_keys_ # <<>>

\* C8: choose and update with a strategy other than kRandomChoice/kGaussian
\* raise Unsupported and change neither the registries nor the counters, and
\* run no cost_fn.
C8_UnsupportedStrategy ==
  [][ /\ last'.op = "choose" =>
           \A b \in BanditTags \ Selectable, k \in Keys, est \in CostEstimates,
              c \in Implementations :
             choose(b, k, est, c) =>
               /\ last'.fault = "Unsupported"
               /\ UNCHANGED <<registry, chosen_counts_, cost_calls, made, returned, updated>>
      /\ last'.op = "update" =>
           \A b \in BanditTags \ Selectable, k \in Keys, c \in RealImpls :
             update(b, k, c) =>
               /\ last'.fault = "Unsupported"
               /\ UNCHANGED <<registry, chosen_counts_, cost_calls, made, returned, updated>>
    ]_vars

\* choose failed for an unsupported strategy after earlier calls had filled
\* the registries.
C8_Witness ==
  /\ last.op = "choose" /\ last.fault = "Unsupported"
  /\ returned >= 1

\* C9: constructing a session with a strategy active, fallback() false and no
\* implementations raises the Configuration fault; no object results, no
\* registry entry is created, no cost_fn runs and no counter changes.
C9_ConfigurationFault ==
  [][ (last'.op = "SelectImplementation" /\ active_bandit_ \in Selectable) =>
        \A sid \in SessionIds, k \in Keys, c \in Implementations :
          SelectImplementation(sid, k, FALSE, {}, c) =>
            /\ last'.fault = "Config"
            /\ UNCHANGED <<registry, chosen_counts_, cost_calls, made, returned, session>>
    ]_vars

\* The constructor failed for a call site without implementations.
C9_Witness ==
  /\ last.op = "SelectImplementation" /\ last.fault = "Config"
  /\ active_bandit_ \in Selectable

\* C10: a session constructed for a fallback-only call site with a strategy
\* active has choice() == kFallback and no timer, creates no registry entry,
\* runs no cost_fn and changes no counter; every finish() on it returns without
\* fault, update or log record.
C10_FallbackOnly ==
  [][ /\ (last'.op = "SelectImplementation" /\ active_bandit_ \in Selectable) =>
           \A sid \in SessionIds, k \in Keys, impls \in Declared, c \in Implementations :
             SelectImplementation(sid, k, TRUE, impls, c) =>
               /\ last'.fault = "none"
               /\ session'[sid].live
               /\ session'[sid].choice_ = kFallback
               /\ ~session'[sid].start_
               /\ UNCHANGED <<registry, chosen_counts_, cost_calls, made, returned>>
      /\ last'.op = "finish" =>
           \A sid \in SessionIds :
             (finish(sid) /\ choice(sid) = kFallback) =>
               /\ last'.fault = "none"
               /\ UNCHANGED <<registry, chosen_counts_, updated, session>>
    ]_vars

\* finish() was called on a Fallback session.
C10_Witness ==
  /\ last.op = "finish" /\ last.fault = "none"
  /\ \E sid \in SessionIds : session[sid].live /\ choice(sid) = kFallback

\* C11: a choose that returns, returns a real implementation, never TOTAL_COUNT,
\* kDisabled or kFallback; the counters of kDisabled and kFallback stay 0 and
\* TOTAL_COUNT has no counter; times_chosen(TOTAL_COUNT) raises the assertion
\* and times_chosen of any other value returns.
C11_SentinelExclusion ==
  [][ /\ last'.op = "choose" =>
           \A b \in BanditTags, k \in Keys, est \in CostEstimates, c \in Implementations :
             (choose(b, k, est, c) /\ last'.fault = "none") =>
               c \notin {TOTAL_COUNT, kDisabled, kFallback}
      /\ chosen_counts_'[kDisabled] = 0
      /\ chosen_counts_'[kFallback] = 0
      /\ TOTAL_COUNT \notin DOMAIN chosen_counts_'
      /\ last'.op = "times_chosen" =>
           \A c \in Implementations :
             call_times_chosen(c) =>
               (last'.fault = "Assert" <=> c = TOTAL_COUNT)
    ]_vars

\* times_chosen(TOTAL_COUNT) failed after choose calls had been counted.
C11_Witness ==
  /\ last.op = "times_chosen" /\ last.fault = "Assert"
  /\ returned >= 1
  /\ SumOver(chosen_counts_, RealImpls) >= 1

\* C12 as stated: with sessions constructed while the active strategy is
\* switched and no reset, cost_fn is invoked at most once per key.
C12_OncePerKey ==
  \A k \in Keys : cost_calls["kRandomChoice"][k] + cost_calls["kGaussian"][k] <= 1

\* C12 amended: with sessions constructed while the active strategy is
\* switched and no reset, cost_fn is invoked at most once per (strategy, key):
\* the construction that finds no bandit for the key in the registry of the
\* active strategy invokes it once, any other construction not at all, and
\* the counts of the other strategy are left alone.
C12_OncePerPair ==
  [][ /\ \A s \in Selectable, k \in Keys : cost_calls'[s][k] <= 1
      /\ (last'.op = "SelectImplementation" /\ active_bandit_ \in Selectable) =>
           \A sid \in SessionIds, k \in Keys, c \in Implementations :
             SelectImplementation(sid, k, FALSE, RealImpls, c) =>
               cost_calls' =
                 IF Absent(registry[active_bandit_], k)
                   THEN [cost_calls EXCEPT ![active_bandit_][k] = @ + 1]
                   ELSE cost_calls
    ]_vars

\* A session has been constructed for a key under each of the two strategies.
C12_Witness ==
  /\ last.op = "SelectImplementation" /\ last.fault = "none"
  /\ \E k \in Keys :
       /\ cost_calls["kRandomChoice"][k] = 1
       /\ cost_calls["kGaussian"][k] = 1

\* The threads that have called DispatchInterface::choose.
Choosers == {t \in Threads : tl[t].op = "choose"}

\* C13: once every concurrent choose call has returned, the times_chosen
\* counters of the real implementations add up to the number of calls made.
C13_NoLostIncrement ==
  (Choosers # {} /\ \A t \in Choosers : pc[t] = "returned")
    => SumOver(chosen_counts_, RealImpls) = Cardinality(Choosers)

\* Thread t is inside choose() or update() of the bandit object it holds.
Inside(t) == pc[t] \in {"in_choose", "in_update"}

\* C14: no two threads are inside choose()/update() of the same bandit
\* object at the same time.
C14_Serialized ==
  \A t1, t2 \in Threads :
    (t1 # t2 /\ Inside(t1) /\ Inside(t2)) =>
      ~(tl[t1].b = tl[t2].b /\ tl[t1].key = tl[t2].key /\ tl[t1].got = tl[t2].got)

\* The number of resets before the bandit object id was constructed.
Epoch(id) == (id - 1) \div IdStride

\* C15: the first finish() of a Measuring session constructed since the last
\* reset returns, having called update once with the strategy, key and choice
\* the session recorded (whatever the active strategy is by then): exactly the
\* bandit of that strategy and key gains one observation, one log record is
\* emitted and the session is finished. No session ever has a log record
\* without the update before it having returned.
C15_FirstFinish ==
  [][ /\ last'.op = "finish" =>
           \A sid \in SessionIds :
             ( /\ finish(sid)
               /\ session[sid].record_duration_
               /\ ~session[sid].record_finished_
               /\ Epoch(session[sid].inst) = resets ) =>
               LET s == session[sid] IN
               /\ last'.fault = "none"
               /\ last'.update = <<s.bandit_type_, s.key, s.choice_>>
               /\ updated' = updated + 1
               /\ registry' = [registry EXCEPT ![s.bandit_type_].bandits_[s.key] =
                                 Bandit_update(@, s.choice_)]
               /\ session'[sid] = [s EXCEPT !.record_finished_ = TRUE,
                                            !.updates = 1, !.logs = 1]
      /\ \A i \in SessionIds : session'[i].logs <= session'[i].updates
    ]_vars

\* A Measuring session finished after the active strategy had been changed.
C15_Witness ==
  /\ last.op = "finish" /\ last.fault = "none"
  /\ last.update # <<>>
  /\ last.update[1] # active_bandit_
  /\ \E sid \in SessionIds :
       /\ session[sid].record_finished_
       /\ session[sid].updates = 1 /\ session[sid].logs = 1

\* C16 as stated: in any interleaving of constructions, finish, choose and
\* reset, a finish() that feeds an observation feeds it to the bandit object
\* that produced the session's choice.
C16_SameInstance ==
  [][ last'.op = "finish" =>
        \A sid \in SessionIds :
          ( /\ finish(sid)
            /\ FinishBranch(session[sid]) = "update"
            /\ last'.fault = "none" ) =>
            get(registry[session[sid].bandit_type_], session[sid].key).id
              = session[sid].inst
    ]_vars

\* C16 amended: when no reset ran between a session's construction and its
\* first finish(), that finish() returns and feeds its observation to the
\* bandit object that produced the session's choice, and to no other. After
\* such a reset it raises NotFound and feeds nothing, or feeds the bandit
\* object constructed for the strategy and key since the reset.
C16_SameInstanceNoReset ==
  [][ last'.op = "finish" =>
        \A sid \in SessionIds :
          (finish(sid) /\ FinishBranch(session[sid]) = "update") =>
            LET s == session[sid]
                reg == registry[s.bandit_type_]
            IN IF Epoch(s.inst) = resets
                 THEN /\ last'.fault = "none"
                      /\ get(reg, s.key).id = s.inst
                      /\ registry' = [registry EXCEPT ![s.bandit_type_].bandits_[s.key] =
                                        [get(reg, s.key) EXCEPT !.obs = @ + 1]]
                 ELSE IF Absent(reg, s.key)
                   THEN last'.fault = "NotFound" /\ UNCHANGED registry
                   ELSE /\ last'.fault = "none"
                        /\ Epoch(get(reg, s.key).id) = resets
                        /\ get(reg, s.key).id # s.inst
    ]_vars

\* A session finished on a bandit that other calls had used since the
\* session's choice.
C16_Witness ==
  /\ last.op = "finish" /\ last.fault = "none"
  /\ \E sid \in SessionIds :
       /\ session[sid].updates = 1
       /\ Epoch(session[sid].inst) = resets
       /\ get(registry[session[sid].bandit_type_], session[sid].key).id = session[sid].inst
       /\ get(registry[session[sid].bandit_type_], session[sid].key).pulls >= 2

\* C18: the choose that constructs the n-th bandit of a registry since the
\* last reset (n from 0) constructs it with seed n, moves that registry's seed
\* counter from n to n + 1 and leaves the other registry alone; no two bandits
\* of one registry have the same seed; reset leaves both seed counters 0.
C18_SequentialSeeds ==
  [][ /\ last'.op = "choose" =>
           \A b \in Selectable, k \in Keys, est \in CostEstimates, c \in RealImpls :
             (choose(b, k, est, c) /\ Absent(registry[b], k)) =>
               LET n == SumOver(made[b], Keys) IN
               /\ registry[b].next_seed_ = n
               /\ get(registry'[b], k).seed = n
               /\ registry'[b].next_seed_ = n + 1
               /\ \A o \in Selectable \ {b} : registry'[o] = registry[o]
      /\ \A s \in Selectable : \A k1, k2 \in Keys :
           (k1 # k2 /\ Holds(registry'[s], k1) /\ Holds(registry'[s], k2)) =>
             get(registry'[s], k1).seed # get(registry'[s], k2).seed
      /\ last'.op = "reset" => \A s \in Selectable : registry'[s].next_seed_ = 0
    ]_vars

\* A registry holds two bandits, constructed with seeds 0 and 1.
C18_Witness ==
  /\ last.op = "choose" /\ last.fault = "none"
  /\ \E s \in Selectable : \E k1, k2 \in DOMAIN registry[s].bandits_ :
       /\ get(registry[s], k1).seed = 0
       /\ get(registry[s], k2).seed = 1
       /\ registry[s].next_seed_ = 2

\* C17: summarize() changes neither the registries nor the counters nor the
\* active strategy, and with a strategy active it returns having reported
\* every bandit of that strategy's registry exactly once, in the order of
\* their creation.
C17_SummarizeReport ==
  [][ (last'.op = "summarize" /\ summarize) =>
        /\ UNCHANGED <<registry, chosen_counts_, active_bandit_>>
        /\ active_bandit_ \in Selectable =>
             LET seen == last'.visited
                 reg == registry[active_bandit_]
             IN /\ last'.fault = "none"
                /\ \A i, j \in 1..Len(seen) : i < j => seen[i] < seen[j]
                /\ {seen[i] : i \in 1..Len(seen)} =
                     {get(reg, k).id : k \in {x \in Keys : Holds(reg, x)}}
    ]_vars

\* C19: each registry's ordered key list holds exactly the keys of its map,
\* each once, and is as long as the seed counter says, in every state (also
\* after a get whose cost_fn failed).
C19_RegistryConsistent ==
  \A s \in Selectable :
    LET reg == registry[s] IN
    /\ {reg.ordered_keys_[i] : i \in 1..Len(reg.ordered_keys_)} = DOMAIN reg.bandits_
    /\ Len(reg.ordered_keys_) = Cardinality(DOMAIN reg.bandits_)
    /\ Len(reg.ordered_keys_) = reg.next_seed_

\* C20: with sessions only and no reset, no bandit has more updates than
\* choose calls; a Measuring session records the implementation its choose
\* returned, and the update of its finish() carries that implementation;
\* abandoning a Measuring session that was not finished raises no fault and
\* feeds nothing, so its bandit keeps a choose without update.
C20_UpdatesWithinChooses ==
  [][ /\ \A s \in Selectable, k \in Keys :
           Holds(registry'[s], k) =>
             get(registry'[s], k).obs <= get(registry'[s], k).pulls
      /\ (last'.op = "SelectImplementation" /\ active_bandit_ \in Selectable) =>
           \A sid \in SessionIds, k \in Keys, c \in Implementations :
             (SelectImplementation(sid, k, FALSE, RealImpls, c) /\ last'.fault = "none") =>
               /\ c \in RealImpls
               /\ choice(sid)' = c
               /\ chosen_counts_' = [chosen_counts_ EXCEPT ![c] = @ + 1]
               /\ get(registry'[active_bandit_], k).pulls >
                    get(registry'[active_bandit_], k).obs
      /\ last'.op = "finish" =>
           \A sid \in SessionIds :
             (finish(sid) /\ updated' # updated) =>
               /\ updated' = updated + 1
               /\ last'.update = <<session[sid].bandit_type_, session[sid].key, choice(sid)>>
               /\ choice(sid) \in RealImpls
      /\ last'.op = "abandon" =>
           \A sid \in SessionIds :
             ( /\ abandon(sid)
               /\ session[sid].record_duration_
               /\ ~session[sid].record_finished_ ) =>
               LET fed == get(registry[session[sid].bandit_type_], session[sid].key)
               IN /\ last'.fault = "none"
                  /\ UNCHANGED <<registry, chosen_counts_, updated, returned>>
                  /\ fed.pulls > fed.obs
    ]_vars

\* Two Measuring sessions have come and gone: one finished, one abandoned
\* without finish().
C20_Witness ==
  /\ last.op = "abandon"
  /\ \A sid \in SessionIds : ~session[sid].live
  /\ returned = 2
  /\ updated = 1
====
